---- MODULE Spec2Model ----
(***************************************************************************)
(* State-machine model of the pipeline scripts:                            *)
(*   scripts/cleanup_resources.py  (ResourceCleanup, main)                 *)
(*   scripts/deploy_endpoint.py    (XGBoostEndpointDeployer.wait_for_...,  *)
(*                                  main)                                  *)
(*   scripts/train_sagemaker.py    (XGBoostTrainer.wait_for_training_job,  *)
(*                                  main)                                  *)
(*   scripts/create_release.py     (ReleaseManager, main)                  *)
(* Timestamps of the cleanup are whole days, wall-clock time of the wait   *)
(* is seconds.                                                             *)
(***************************************************************************)
EXTENDS Integers, Sequences, FiniteSets, TLC

(* ------------------------------ bounds -------------------------------- *)

\* longest listing the provider returns to a directly called cleanup operation
MaxList == 2
\* longest listing the provider returns to each operation of a run_cleanup
MaxRunList == 1
\* last day of the modelled calendar
MaxDay == 3
\* largest --retention-days
MaxRetention == 2
\* granularity of the durations drawn for the wait, seconds
TimeStep == 10
\* largest timeout passed to wait_for_endpoint, in TimeSteps
MaxTimeoutSteps == 6
\* requests after which the registry's methods are not called again
MaxRegCalls == 3
\* number of create_release.py invocations in a row

MaxReleases == 2

(* ------------------------- cleanup_resources.py ----------------------- *)

VARIABLES
  caller,          \* "none" | "op" (a cleanup_* method called directly) | "run" (main -> run_cleanup)
  cpc,             \* "idle" | "list" | "delete" | "returned" | "raised" | "done"
  rtype,           \* resource type of the running cleanup operation
  retention_days,  \* main's --retention-days (run) or the operation's argument (op)
  op_retention,    \* retention_days parameter of the running operation
  dry_run,
  s3_bucket,       \* TRUE iff --s3-bucket was given
  now,             \* datetime.now() as read by the running operation
  cutoff_date,
  listing,         \* the provider's answer to the list call
  to_delete,       \* jobs_to_delete / endpoints_to_delete / ... / objects_to_delete
  idx,             \* position of the delete loop in to_delete
  deleted_items,   \* deleted_jobs / deleted_endpoints / ...
  op_result,       \* <<>> while running, <<l>> once the operation returned the list l
  would_log,       \* identifiers written under "Would delete ..." by the operation
  calls,           \* provider calls issued by the running operation
  removed,         \* <<type, id>> of every resource a delete call removed from the provider
  results,         \* run_cleanup's results dictionary
  summary,         \* <<>> while there is no cleanup_results.json, <<r>> once it holds r
  exit_code,       \* <<>> while the process runs, <<0>> or <<1>> once it has exited
  reran,           \* the caller repeated a dry run as a live run on the same inputs
  prev_would       \* what that dry run logged as "Would delete"

cleanupVars == <<caller, cpc, rtype, retention_days, op_retention, dry_run, s3_bucket,
                 now, cutoff_date, listing, to_delete, idx, deleted_items, op_result,
                 would_log, calls, removed, results, summary, exit_code, reran, prev_would>>

(* --------------------------- deploy_endpoint.py ----------------------- *)

VARIABLES
  wpc,          \* "idle" | "query" | "sleep" | "returned" | "raised"
  timeout,      \* wait_for_endpoint's timeout argument, seconds
  clock,        \* time.time(), seconds
  start_time,
  seen,         \* the describe_endpoint calls issued: elapsed time at issue, and answer
  sleeps,       \* number of time.sleep(30) executed
  wait_result,  \* <<>> while waiting, <<s>> once wait_for_endpoint returned s
  wait_caller,  \* "none" | "call" (wait_for_endpoint called directly) | "main" (deploy_endpoint.py main)
  deploy_exit   \* <<>> while deploy_endpoint.py runs, <<0>> or <<1>> once it has exited

endpointVars == <<wpc, timeout, clock, start_time, seen, sleeps, wait_result,
                  wait_caller, deploy_exit>>

(* --------------------------- train_sagemaker.py ----------------------- *)

VARIABLES
  tpc,            \* "idle" | "poll" | "delay" | "describe" | "returned" | "raised"
  max_wait_time,  \* wait_for_training_job's max_wait_time argument, seconds
  job_status,     \* TrainingJobStatus of the job at the provider
  attempts,       \* status queries the waiter has issued (its num_attempts)
  train_result,   \* <<>> while waiting, <<s>> once wait_for_training_job returned s
  train_raise,    \* "" | why wait_for_training_job raised
  train_caller,   \* "none" | "call" (wait_for_training_job called directly) | "main"
  train_exit      \* <<>> while train_sagemaker.py runs, <<0>> or <<1>> once it has exited

trainVars == <<tpc, max_wait_time, job_status, attempts, train_result, train_raise,
               train_caller, train_exit>>

waitVars == <<endpointVars, trainVars>>

(* --------------------------- create_release.py ----------------------- *)

VARIABLES
  rpc,               \* "idle" | "save" | "notes" | "tag" | "notify" | "exited"
  invocation,        \* number of create_release.py invocations started
  release_type,      \* --release-type
  version,           \* --version
  release_bucket,    \* TRUE iff --s3-bucket was given
  create_tag,        \* --create-tag
  webhook_url,       \* TRUE iff --webhook-url was given
  release_metadata,  \* the dictionary built by create_release_metadata
  files,             \* the working directory: file name -> contents
  s3_store,          \* the bucket: key -> contents
  tags,              \* git tags of the repository
  outcomes,          \* how each invocation ended: its identifier, its exit status, the step
                     \* it ended at, and whether its upload had failed
  upload,            \* "none" | "ok" | "failed": the put_object call of the running invocation
  endpoint_found,    \* the provider answers describe_endpoint for --endpoint-name
  model_found        \* the provider answers describe_model for --model-name

releaseVars == <<rpc, invocation, release_type, version, release_bucket, create_tag,
                 webhook_url, release_metadata, files, s3_store, tags, outcomes, upload,
                 endpoint_found, model_found>>

(* -------------------------- create_zip_package.py --------------------- *)

VARIABLES
  zpc,           \* "idle" | "source" | "project" | "deployment" | "documentation" |
                 \* "metadata" | "returned" | "raised"
  zcaller,       \* "none" | "create_zip_package" (scripts/create_zip_package.py) |
                 \* "steps" (a caller running that module's step functions itself) |
                 \* "train-script" (train-script/create_zip_package.py main)
  zin,           \* the arguments and the working directory of the packaging
  project_type,  \* project_type once resolved
  archive,       \* content groups written to the zip file
  steps,         \* the step functions run, in order
  metadata_json, \* <<>> | <<m>>: metadata.json as written to the archive
  zip_result     \* <<>> | <<r>>: what the packaging returned

packageVars == <<zpc, zcaller, zin, project_type, archive, steps, metadata_json, zip_result>>

(* ------- train_sagemaker.py / deploy_endpoint.py: resource creation --- *)

VARIABLES
  kpc,             \* "idle" | "lookup" | "request" | "returned" | "raised"
  create_op,       \* "none" | "create_training_job" | "create_model"
  create_caller,   \* "none" | "call" (the method called directly) | "main"
  region,          \* self.region
  container_uri,   \* <<>> | <<uri>>
  lookups,         \* calls of get_xgboost_container_uri
  provider_calls,  \* requests sent to the provider by the running method
  create_error,    \* "" | "ValueError" | "ClientError": what the method raised
  create_exit      \* <<>> | <<1>>: exit status of a main that caught the error

createVars == <<kpc, create_op, create_caller, region, container_uri, lookups,
                provider_calls, create_error, create_exit>>


(* register_model.py: ModelRegistry and main *)
VARIABLES
  gpc,             \* "idle" | "group" | "create_group" | "describe_job" | "create_package" |
                   \* "approve" | "save" | "returned" | "raised" | "exited"
  reg_caller,      \* "none" | "main" | "create_model_package_group" | "create_model_package"
  reg_job_status,  \* TrainingJobStatus of --training-job-name at the provider
  group_exists,    \* the provider has the model package group
  auto_approve,    \* --auto-approve
  reg_calls,       \* the requests sent to the provider, in order, with their answers
  package_arn,     \* <<>> | <<arn>>: what create_model_package returned
  reg_exit         \* <<>> | <<code>>: exit status of main

registerVars == <<gpc, reg_caller, reg_job_status, group_exists, auto_approve, reg_calls,
                  package_arn, reg_exit>>

(* server-scripts/check_gitlab_health.py: run_all_checks and main *)
VARIABLES
  hpc,             \* "idle" | "checks" | "returned" | "save" | "exited"
  hcaller,         \* "none" | "run_all_checks" (called directly) | "main"
  ran,             \* <<name, outcome>> of the checks run so far, in order
  passed_checks,   \* passed_checks
  overall_status,  \* self.results['overall_status']
  health_exit      \* <<>> | <<code>>: exit status of main

healthVars == <<hpc, hcaller, ran, passed_checks, overall_status, health_exit>>

(* ------------------------------ provider calls ----------------------- *)
VARIABLES
  issued   \* <<component, operation>> of every request sent to the provider or the bucket

vars == <<issued, cleanupVars, waitVars, releaseVars, packageVars, createVars, registerVars, healthVars>>

\* what the steps of each script leave alone
notCleanupVars == <<waitVars, releaseVars, packageVars, createVars, registerVars, healthVars>>
notWaitVars == <<cleanupVars, releaseVars, packageVars, createVars, registerVars, healthVars>>
notReleaseVars == <<cleanupVars, waitVars, packageVars, createVars, registerVars, healthVars>>
notPackageVars == <<cleanupVars, waitVars, releaseVars, createVars, registerVars, healthVars>>
notCreateVars == <<cleanupVars, waitVars, releaseVars, packageVars, registerVars, healthVars>>
notRegisterVars == <<cleanupVars, waitVars, releaseVars, packageVars, createVars, healthVars>>
notHealthVars == <<cleanupVars, waitVars, releaseVars, packageVars, createVars, registerVars>>

\* the scripts are separate processes; the model runs one of them at a time:
\* no cleanup, no wait or stage, no release has been started
CleanupIdle == caller = "none"

WaitIdle == wait_caller = "none" /\ train_caller = "none"

ReleaseIdle == invocation = 0

ResourceTypes == {"training_jobs", "endpoints", "models", "model_packages", "s3_objects"}

\* a component sends the request op to the provider or to the bucket
Issue(component, op) == issued' = issued \cup {<<component, op>>}

\* the list call of each cleanup operation
ListCall(t) ==
  CASE t = "training_jobs"  -> "list_training_jobs"
    [] t = "endpoints"      -> "list_endpoints"
    [] t = "models"         -> "list_models"
    [] t = "model_packages" -> "list_model_packages"
    [] OTHER                -> "list_objects_v2"

\* the delete call of each cleanup operation
DeleteCall(t) ==
  CASE t = "training_jobs"  -> "delete_training_job"
    [] t = "endpoints"      -> "delete_endpoint"
    [] t = "models"         -> "delete_model"
    [] t = "model_packages" -> "delete_model_package"
    [] OTHER                -> "delete_object"

\* faulty variant of StatusQuery: the wait repairs the endpoint it watches
StatusQueryUpdate == "update_endpoint"

\* the call by which wait_for_endpoint reads the status
StatusQuery == "describe_endpoint"

\* order in which run_cleanup calls the operations
RunOrder == <<"training_jobs", "endpoints", "models", "model_packages", "s3_objects">>

\* statuses the provider reports in a listing, by type; models and S3 objects
\* carry no status field
ProviderStatuses(t) ==
  CASE t = "training_jobs"  -> {"InProgress", "Completed", "Failed", "Stopped"}
    [] t = "endpoints"      -> {"InService", "Creating", "Failed", "OutOfService"}
    [] t = "model_packages" -> {"Approved", "Rejected", "PendingManualApproval"}
    [] OTHER                -> {"n/a"}

\* faulty variant of EligibleStatuses: the in-use statuses are allow-listed too
EligibleStatusesInUse(t) ==
  CASE t = "training_jobs"  -> {"Completed", "Failed", "Stopped", "InProgress"}
    [] t = "endpoints"      -> {"Failed", "OutOfService", "InService"}
    [] t = "model_packages" -> {"Rejected", "PendingManualApproval", "Approved"}
    [] OTHER                -> {}

\* the allow-list each operation tests the status against
EligibleStatuses(t) ==
  CASE t = "training_jobs"  -> {"Completed", "Failed", "Stopped"}
    [] t = "endpoints"      -> {"Failed", "OutOfService"}
    [] t = "model_packages" -> {"Rejected", "PendingManualApproval"}
    [] OTHER                -> {}

\* cleanup_old_models and cleanup_s3_artifacts test the age only
HasStatusFilter(t) == t \in {"training_jobs", "endpoints", "model_packages"}

\* faulty variant of CutoffDate: the retention is added
CutoffDateAdded(n, d) == n + d

\* cutoff_date = datetime.now() - timedelta(days=retention_days)
CutoffDate(n, d) == n - d

\* faulty variant of OlderThanCutoff: a resource created at the cutoff counts as older
OlderThanCutoffInclusive(created, cutoff) == created <= cutoff

\* "if creation_time < cutoff_date"
OlderThanCutoff(created, cutoff) == created < cutoff

\* the status test nested in the age test; cleanup_old_models and
\* cleanup_s3_artifacts have none
StatusDeletable(t, status) == HasStatusFilter(t) => status \in EligibleStatuses(t)

\* the two nested tests of the selection loop
IsSelected(t, r, cutoff) ==
  /\ OlderThanCutoff(r.created, cutoff)
  /\ StatusDeletable(t, r.status)

\* the loop over the listing that appends the selected names, in listing order
RECURSIVE SelectToDelete(_, _, _)
SelectToDelete(t, l, cutoff) ==
  IF l = <<>> THEN <<>>
  ELSE (IF IsSelected(t, Head(l), cutoff) THEN <<Head(l).id>> ELSE <<>>)
       \o SelectToDelete(t, Tail(l), cutoff)

\* retention each operation is called with by run_cleanup
RunRetention(t, d) == IF t \in {"models", "model_packages"} THEN d * 4 ELSE d

\* listings the provider may return: distinct identifiers; SageMaker listings are
\* requested SortBy CreationTime, SortOrder Descending
Listings(t, n) ==
  UNION { { l \in [1..k -> [id : 1..n, created : 0..MaxDay, status : ProviderStatuses(t)]] :
              /\ \A i \in 1..k : l[i].id = i
              /\ t # "s3_objects" =>
                   \A i \in 1..k : \A j \in 1..k : i < j => l[i].created >= l[j].created }
          : k \in 0..n }

MaxListFor(c) == IF c = "run" THEN MaxRunList ELSE MaxList

EmptyResults == [t \in ResourceTypes |-> <<>>]

InitCleanup ==
  /\ caller = "none" /\ cpc = "idle" /\ rtype = "none"
  /\ retention_days = 0 /\ op_retention = 0 /\ dry_run = TRUE /\ s3_bucket = FALSE
  /\ now = MaxDay - 1 /\ cutoff_date = 0
  /\ listing = <<>> /\ to_delete = <<>> /\ idx = 0 /\ deleted_items = <<>>
  /\ op_result = <<>> /\ would_log = <<>> /\ calls = <<>> /\ removed = {}
  /\ results = EmptyResults /\ summary = <<>> /\ exit_code = <<>>
  /\ reran = FALSE /\ prev_would = <<>>

\* entry of one cleanup_* method: the cutoff is computed before the list call
EnterOp(t, d, n) ==
  /\ rtype' = t /\ op_retention' = d /\ now' = n
  /\ cutoff_date' = CutoffDate(n, d)
  /\ cpc' = "list"
  /\ listing' = <<>> /\ to_delete' = <<>> /\ idx' = 0 /\ deleted_items' = <<>>
  /\ op_result' = <<>> /\ would_log' = <<>> /\ calls' = <<>>

\* a cleanup_* method called directly by some caller
CallOp ==
  /\ cpc = "idle"
  /\ WaitIdle /\ ReleaseIdle
  /\ \E t \in ResourceTypes, d \in 0..MaxRetention, dry \in BOOLEAN, n \in now..MaxDay :
       /\ caller' = "op" /\ retention_days' = d /\ dry_run' = dry
       /\ EnterOp(t, d, n)
  /\ UNCHANGED <<s3_bucket, removed, results, summary, exit_code, reran, prev_would>>
  /\ UNCHANGED issued
  /\ UNCHANGED notCleanupVars

\* main -> run_cleanup up to the first operation
MainStart ==
  /\ cpc = "idle"
  /\ WaitIdle /\ ReleaseIdle
  /\ \E d \in 0..MaxRetention, dry \in BOOLEAN, b \in BOOLEAN, n \in now..MaxDay :
       /\ caller' = "run" /\ retention_days' = d /\ dry_run' = dry /\ s3_bucket' = b
       /\ EnterOp(RunOrder[1], RunRetention(RunOrder[1], d), n)
  /\ results' = EmptyResults
  /\ UNCHANGED <<removed, summary, exit_code, reran, prev_would>>
  /\ UNCHANGED issued
  /\ UNCHANGED notCleanupVars

\* what the dry-run branch logs ("Would delete ...")
WouldDelete(sel) == sel

\* faulty variant of DeleteTargets: the loop stops one item short
DeleteTargetsDropLast(sel) == IF sel = <<>> THEN <<>> ELSE SubSeq(sel, 1, Len(sel) - 1)

\* what the live branch loops over
DeleteTargets(sel) == sel

\* the dry-run branch returns an empty list
DryRunResult(sel) == <<>>

\* faulty variant of DryRunBranch: the flag is ignored
DryRunBranchMissing(flag) == FALSE

\* "if dry_run:" decides between reporting and deleting
DryRunBranch(flag) == flag

\* the list call answers; the operation selects, then logs (dry run) or starts deleting
ListOk ==
  /\ cpc = "list"
  /\ \E l \in (IF reran THEN {listing} ELSE Listings(rtype, MaxListFor(caller))) :
       LET sel == SelectToDelete(rtype, l, cutoff_date) IN
       /\ listing' = l
       /\ calls' = Append(calls, [op |-> "list", id |-> 0, ok |-> TRUE])
       /\ IF DryRunBranch(dry_run)
          THEN /\ to_delete' = sel
               /\ would_log' = WouldDelete(sel)
               /\ op_result' = <<DryRunResult(sel)>>
               /\ cpc' = "returned"
               /\ idx' = 0
          ELSE /\ to_delete' = DeleteTargets(sel)
               /\ would_log' = <<>>
               /\ idx' = 1
               /\ IF DeleteTargets(sel) = <<>>
                  THEN op_result' = << <<>> >> /\ cpc' = "returned"
                  ELSE op_result' = <<>> /\ cpc' = "delete"
  /\ UNCHANGED <<caller, rtype, retention_days, op_retention, dry_run, s3_bucket, now,
                 cutoff_date, deleted_items, removed, results, summary, exit_code,
                 reran, prev_would>>
  /\ Issue("cleanup", ListCall(rtype))
  /\ UNCHANGED notCleanupVars

\* the list call raises: the outer handler logs and re-raises
ListFail ==
  /\ cpc = "list"
  /\ calls' = Append(calls, [op |-> "list", id |-> 0, ok |-> FALSE])
  /\ cpc' = "raised"
  /\ UNCHANGED <<caller, rtype, retention_days, op_retention, dry_run, s3_bucket, now,
                 cutoff_date, listing, to_delete, idx, deleted_items, op_result,
                 would_log, removed, results, summary, exit_code, reran, prev_would>>
  /\ Issue("cleanup", ListCall(rtype))
  /\ UNCHANGED notCleanupVars

\* faulty variant of NextIndex: a delete call that raises ends the loop
NextIndexAbortOnError(i, ok) == IF ok THEN i + 1 ELSE Len(to_delete) + 1

\* position of the delete loop after the item at i, whose delete call succeeded
\* (ok) or raised: the inner handler catches the error and the loop goes on
NextIndex(i, ok) == i + 1

\* one iteration of the delete loop: the delete call succeeds or raises, and the
\* inner handler logs the failure and goes on
DeleteStep(ok) ==
  /\ cpc = "delete"
  /\ idx <= Len(to_delete)
  /\ LET name == to_delete[idx]
         del  == IF ok THEN Append(deleted_items, name) ELSE deleted_items IN
     /\ calls' = Append(calls, [op |-> "delete", id |-> name, ok |-> ok])
     /\ deleted_items' = del
     /\ removed' = IF ok THEN removed \cup {<<rtype, name>>} ELSE removed
     /\ idx' = NextIndex(idx, ok)
     /\ IF NextIndex(idx, ok) > Len(to_delete)
        THEN op_result' = <<del>> /\ cpc' = "returned"
        ELSE op_result' = <<>> /\ cpc' = "delete"
  /\ UNCHANGED <<caller, rtype, retention_days, op_retention, dry_run, s3_bucket, now,
                 cutoff_date, listing, to_delete, would_log, results, summary,
                 exit_code, reran, prev_would>>
  /\ Issue("cleanup", DeleteCall(rtype))
  /\ UNCHANGED notCleanupVars

\* the failed deletions recorded in what an operation returns: the except clause
\* of the delete loop writes to the log and the operation returns the list of
\* deleted names, which carries no other entry
FailedDeletions(returned) == {}

DeleteItem == \E ok \in BOOLEAN : DeleteStep(ok)

\* position in RunOrder of type t
OrderIndex(t) == CHOOSE i \in 1..Len(RunOrder) : RunOrder[i] = t

\* last operation run_cleanup calls: the S3 one only "if s3_bucket"
LastRunIndex(b) == IF b THEN 5 ELSE 4

\* run_cleanup stores the operation's result and calls the next operation
RunNext ==
  /\ caller = "run" /\ cpc = "returned"
  /\ OrderIndex(rtype) < LastRunIndex(s3_bucket)
  /\ results' = [results EXCEPT ![rtype] = op_result[1]]
  /\ \E n \in now..MaxDay :
       LET t == RunOrder[OrderIndex(rtype) + 1] IN
       EnterOp(t, RunRetention(t, retention_days), n)
  /\ UNCHANGED <<caller, retention_days, dry_run, s3_bucket, removed, summary,
                 exit_code, reran, prev_would>>
  /\ UNCHANGED issued
  /\ UNCHANGED notCleanupVars

\* run_cleanup stores the last result and returns; main prints the counts and
\* writes cleanup_results.json
RunFinish ==
  /\ caller = "run" /\ cpc = "returned"
  /\ OrderIndex(rtype) = LastRunIndex(s3_bucket)
  /\ results' = [results EXCEPT ![rtype] = op_result[1]]
  /\ summary' = <<[results EXCEPT ![rtype] = op_result[1]]>>
  /\ exit_code' = <<0>>
  /\ cpc' = "done"
  /\ UNCHANGED <<caller, rtype, retention_days, op_retention, dry_run, s3_bucket, now,
                 cutoff_date, listing, to_delete, idx, deleted_items, op_result,
                 would_log, calls, removed, reran, prev_would>>
  /\ UNCHANGED issued
  /\ UNCHANGED notCleanupVars

\* an operation raised: run_cleanup logs and re-raises, main logs and exit(1)
RunFail ==
  /\ caller = "run" /\ cpc = "raised"
  /\ exit_code' = <<1>>
  /\ cpc' = "done"
  /\ UNCHANGED <<caller, rtype, retention_days, op_retention, dry_run, s3_bucket, now,
                 cutoff_date, listing, to_delete, idx, deleted_items, op_result,
                 would_log, calls, removed, results, summary, reran, prev_would>>
  /\ UNCHANGED issued
  /\ UNCHANGED notCleanupVars

\* the caller of a dry run repeats the call live, with the same arguments, at the
\* same time, and the provider (unchanged by the dry run) lists the same resources
Rerun ==
  /\ caller = "op" /\ cpc = "returned" /\ dry_run /\ ~reran
  /\ reran' = TRUE
  /\ prev_would' = would_log
  /\ dry_run' = FALSE
  /\ cpc' = "list"
  /\ to_delete' = <<>> /\ idx' = 0 /\ deleted_items' = <<>>
  /\ op_result' = <<>> /\ would_log' = <<>> /\ calls' = <<>>
  /\ UNCHANGED <<caller, rtype, retention_days, op_retention, s3_bucket, now,
                 cutoff_date, listing, removed, results, summary, exit_code>>
  /\ UNCHANGED issued
  /\ UNCHANGED notCleanupVars


(* ------------------ deploy_endpoint.py: wait_for_endpoint ------------- *)

\* time.sleep(30)
PollInterval == 30

\* statuses describe_endpoint reports
EndpointStatuses == {"Creating", "Updating", "InService", "Failed", "OutOfService"}

\* faulty variant of TerminalStatuses: only success ends the wait
TerminalStatusesInServiceOnly == {"InService"}

\* "if status in ['InService', 'Failed', 'OutOfService']"
TerminalStatuses == {"InService", "Failed", "OutOfService"}

\* faulty variant of TimedOut: the wait gives up one poll interval early
TimedOutEarly(t, start, limit) == t - start > limit - PollInterval

\* "if time.time() - start_time > timeout"
TimedOut(t, start, limit) == t - start > limit

\* durations a describe_endpoint call may take
Latencies == {0, TimeStep}

InitWait ==
  /\ wpc = "idle" /\ timeout = 0 /\ clock = 0 /\ start_time = 0
  /\ seen = <<>> /\ sleeps = 0 /\ wait_result = <<>>
  /\ wait_caller = "none" /\ deploy_exit = <<>>
  /\ tpc = "idle" /\ max_wait_time = 0 /\ job_status = "InProgress" /\ attempts = 0
  /\ train_result = <<>> /\ train_raise = "" /\ train_caller = "none"
  /\ train_exit = <<>>

\* wait_for_endpoint is entered: start_time = time.time()
WaitStart ==
  /\ WaitIdle /\ CleanupIdle /\ ReleaseIdle
  /\ wpc = "idle"
  /\ wait_caller' = "call"
  /\ \E k \in 0..MaxTimeoutSteps : timeout' = k * TimeStep
  /\ start_time' = clock
  /\ wpc' = "query"
  /\ UNCHANGED <<clock, seen, sleeps, wait_result, deploy_exit>>
  /\ UNCHANGED trainVars
  /\ UNCHANGED issued
  /\ UNCHANGED notWaitVars

\* one pass of the loop body up to the sleep: describe_endpoint answers with a
\* status; a terminal status is returned, otherwise the timeout is tested
QueryOk ==
  /\ wpc = "query"
  /\ \E st \in EndpointStatuses, lat \in Latencies :
       /\ seen' = Append(seen, [at |-> clock - start_time, status |-> st])
       /\ clock' = clock + lat
       /\ IF st \in TerminalStatuses
          THEN wait_result' = <<st>> /\ wpc' = "returned"
          ELSE IF TimedOut(clock + lat, start_time, timeout)
               THEN wait_result' = <<"Timeout">> /\ wpc' = "returned"
               ELSE wait_result' = <<>> /\ wpc' = "sleep"
  /\ UNCHANGED <<timeout, start_time, sleeps, wait_caller, deploy_exit>>
  /\ UNCHANGED trainVars
  /\ Issue("wait_for_endpoint", StatusQuery)
  /\ UNCHANGED notWaitVars

\* faulty variant of OnQueryError: the error is logged and the loop goes on
OnQueryErrorRetry == "sleep"

\* "except Exception as e: logger.error(...); raise": where a failed status query
\* leaves wait_for_endpoint
OnQueryError == "raised"

\* describe_endpoint raises: the handler logs and re-raises
QueryFail ==
  /\ wpc = "query"
  /\ \E lat \in Latencies :
       /\ seen' = Append(seen, [at |-> clock - start_time, status |-> "error"])
       /\ clock' = clock + lat
  /\ wpc' = OnQueryError
  /\ UNCHANGED <<timeout, start_time, sleeps, wait_result, wait_caller, deploy_exit>>
  /\ UNCHANGED trainVars
  /\ Issue("wait_for_endpoint", StatusQuery)
  /\ UNCHANGED notWaitVars

\* time.sleep(30), then the loop starts over
Sleep ==
  /\ wpc = "sleep"
  /\ clock' = clock + PollInterval
  /\ sleeps' = sleeps + 1
  /\ wpc' = "query"
  /\ UNCHANGED <<timeout, start_time, seen, wait_result, wait_caller, deploy_exit>>
  /\ UNCHANGED trainVars
  /\ UNCHANGED issued
  /\ UNCHANGED notWaitVars

(* ------------------------ deploy_endpoint.py: main -------------------- *)

\* faulty variant of DeployExitStatus: only Failed and OutOfService fail the stage
DeployExitStatusTimeoutOk(status, info_ok) ==
  IF status \in {"Failed", "OutOfService"} \/ ~info_ok THEN 1 ELSE 0

\* main after wait_for_endpoint returned status: InService leads to
\* get_endpoint_info and the writing of endpoint_info.json (info_ok: neither
\* raises), after which main falls off its end; any other value leads to exit(1)
DeployExitStatus(status, info_ok) ==
  IF status = "InService" THEN (IF info_ok THEN 0 ELSE 1) ELSE 1

\* main up to "if args.wait": the endpoint is created or updated (a failure is
\* caught by main: exit(1)); without --wait main ends here, with --wait it calls
\* wait_for_endpoint(args.endpoint_name).  The call uses the default timeout of
\* 1800 s; the model draws the timeout from the same bounded set as a direct call.
DeployMain ==
  /\ WaitIdle /\ CleanupIdle /\ ReleaseIdle
  /\ wpc = "idle"
  /\ wait_caller' = "main"
  /\ \E created \in BOOLEAN, wait \in BOOLEAN :
       IF created /\ wait
       THEN /\ \E k \in 0..MaxTimeoutSteps : timeout' = k * TimeStep
            /\ start_time' = clock
            /\ wpc' = "query"
            /\ deploy_exit' = <<>>
       ELSE /\ deploy_exit' = <<IF created THEN 0 ELSE 1>>
            /\ UNCHANGED <<timeout, start_time, wpc>>
  /\ UNCHANGED <<clock, seen, sleeps, wait_result>>
  /\ UNCHANGED trainVars
  /\ \E update \in BOOLEAN, with_model \in BOOLEAN :
       issued' = issued \cup {<<"deploy main", op>> :
                   op \in IF update THEN {"create_endpoint_config", "update_endpoint"}
                          ELSE IF with_model
                          THEN {"create_model", "create_endpoint_config", "create_endpoint"}
                          ELSE {"create_endpoint_config", "create_endpoint"}}
  /\ UNCHANGED notWaitVars

\* main after the wait: a raise of wait_for_endpoint is caught by main (exit(1)),
\* a returned status is branched on
DeployMainFinish ==
  /\ wait_caller = "main" /\ deploy_exit = <<>>
  /\ wpc \in {"returned", "raised"}
  /\ IF wpc = "raised"
     THEN deploy_exit' = <<1>>
     ELSE \E info_ok \in BOOLEAN :
            deploy_exit' = <<DeployExitStatus(wait_result[1], info_ok)>>
  /\ UNCHANGED <<wpc, timeout, clock, start_time, seen, sleeps, wait_result, wait_caller>>
  /\ UNCHANGED trainVars
  /\ IF wpc = "returned" /\ wait_result = <<"InService">>
     THEN Issue("deploy main", "describe_endpoint")
     ELSE UNCHANGED issued
  /\ UNCHANGED notWaitVars

(* --------------- train_sagemaker.py: wait_for_training_job ------------ *)

\* def wait_for_training_job(self, job_name, max_wait_time=3600)
DefaultMaxWaitTime == 3600

\* WaiterConfig 'Delay': 30
WaiterDelay == 30

\* WaiterConfig 'MaxAttempts': max_wait_time // 30
MaxAttempts(t) == t \div WaiterDelay

\* TrainingJobStatus values
TrainingJobStatuses == {"InProgress", "Stopping", "Completed", "Failed", "Stopped"}

\* statuses a job in status st may have 30 s later
LaterStatuses(st) ==
  CASE st = "InProgress" -> TrainingJobStatuses
    [] st = "Stopping"   -> {"Stopping", "Stopped"}
    [] OTHER             -> {st}

\* "if status == 'Completed': return status / else: raise Exception(...)"
OnFinalStatus(status) == IF status = "Completed" THEN "returned" ELSE "raised"

\* wait_for_training_job is entered by a direct call; the job may be in any status
TrainWaitStart ==
  /\ WaitIdle /\ CleanupIdle /\ ReleaseIdle
  /\ tpc = "idle"
  /\ train_caller' = "call"
  /\ \E k \in 0..MaxTimeoutSteps : max_wait_time' = k * TimeStep
  /\ job_status' \in TrainingJobStatuses
  /\ tpc' = "poll"
  /\ UNCHANGED <<attempts, train_result, train_raise, train_exit>>
  /\ UNCHANGED endpointVars
  /\ UNCHANGED issued
  /\ UNCHANGED notWaitVars

\* one attempt of waiter.wait (training_job_completed_or_stopped): the waiter
\* queries the status; Completed and Stopped end it successfully, Failed or a
\* failing query make it raise, otherwise it raises once the attempts made have
\* reached MaxAttempts and sleeps Delay seconds before the next attempt if not
WaiterPoll ==
  /\ tpc = "poll"
  /\ attempts' = attempts + 1
  /\ \E ok \in BOOLEAN :
       IF ~ok THEN tpc' = "raised" /\ train_raise' = "query error"
       ELSE IF job_status \in {"Completed", "Stopped"}
       THEN tpc' = "describe" /\ train_raise' = ""
       ELSE IF job_status = "Failed"
       THEN tpc' = "raised" /\ train_raise' = "waiter failure"
       ELSE IF attempts + 1 >= MaxAttempts(max_wait_time)
       THEN tpc' = "raised" /\ train_raise' = "max attempts"
       ELSE tpc' = "delay" /\ train_raise' = ""
  /\ UNCHANGED <<max_wait_time, job_status, train_result, train_caller, train_exit>>
  /\ UNCHANGED endpointVars
  /\ Issue("wait_for_training_job", "describe_training_job")
  /\ UNCHANGED notWaitVars

\* the waiter sleeps Delay seconds, during which the job may move on
WaiterSleep ==
  /\ tpc = "delay"
  /\ job_status' \in LaterStatuses(job_status)
  /\ tpc' = "poll"
  /\ UNCHANGED <<max_wait_time, attempts, train_result, train_raise, train_caller,
                 train_exit>>
  /\ UNCHANGED endpointVars
  /\ UNCHANGED issued
  /\ UNCHANGED notWaitVars

\* "Get final status": describe_training_job after the waiter has returned
FinalDescribe ==
  /\ tpc = "describe"
  /\ \E ok \in BOOLEAN :
       IF ~ok THEN /\ tpc' = "raised" /\ train_raise' = "query error"
                   /\ train_result' = <<>>
       ELSE /\ tpc' = OnFinalStatus(job_status)
            /\ train_result' = IF tpc' = "returned" THEN <<job_status>> ELSE <<>>
            /\ train_raise' = IF tpc' = "raised" THEN "status" ELSE ""
  /\ UNCHANGED <<max_wait_time, job_status, attempts, train_caller, train_exit>>
  /\ UNCHANGED endpointVars
  /\ Issue("wait_for_training_job", "describe_training_job")
  /\ UNCHANGED notWaitVars

(* ------------------------ train_sagemaker.py: main -------------------- *)

\* main up to "if args.wait": create_training_job (a failure is caught by main:
\* sys.exit(1)); with --wait main calls wait_for_training_job(args.job_name),
\* without it main goes on to get_training_job_info and ends
TrainMain ==
  /\ WaitIdle /\ CleanupIdle /\ ReleaseIdle
  /\ tpc = "idle"
  /\ train_caller' = "main"
  /\ \E created \in BOOLEAN, wait \in BOOLEAN, info_ok \in BOOLEAN :
       IF created /\ wait
       THEN /\ max_wait_time' = DefaultMaxWaitTime
            /\ job_status' = "InProgress"
            /\ tpc' = "poll"
            /\ train_exit' = <<>>
       ELSE /\ train_exit' = <<IF created /\ info_ok THEN 0 ELSE 1>>
            /\ UNCHANGED <<max_wait_time, job_status, tpc>>
  /\ UNCHANGED <<attempts, train_result, train_raise>>
  /\ UNCHANGED endpointVars
  /\ Issue("train main", "create_training_job")
  /\ UNCHANGED notWaitVars

\* main after the wait: a raise of wait_for_training_job is caught by main
\* (sys.exit(1)); after a return main calls save_training_metrics and
\* get_training_job_info (rest_ok: neither raises) and falls off its end
TrainMainFinish ==
  /\ train_caller = "main" /\ train_exit = <<>>
  /\ tpc \in {"returned", "raised"}
  /\ IF tpc = "raised"
     THEN train_exit' = <<1>>
     ELSE \E rest_ok \in BOOLEAN : train_exit' = <<IF rest_ok THEN 0 ELSE 1>>
  /\ UNCHANGED <<tpc, max_wait_time, job_status, attempts, train_result, train_raise,
                 train_caller>>
  /\ UNCHANGED endpointVars
  /\ IF tpc = "returned"
     THEN Issue("train main", "describe_training_job")
     ELSE UNCHANGED issued
  /\ UNCHANGED notWaitVars

NextWait ==
  \/ WaitStart
  \/ QueryOk
  \/ QueryFail
  \/ Sleep
  \/ DeployMain
  \/ DeployMainFinish
  \/ TrainWaitStart
  \/ WaiterPoll
  \/ WaiterSleep
  \/ FinalDescribe
  \/ TrainMain
  \/ TrainMainFinish

(* ----------------------------- create_release.py ---------------------- *)

\* argparse: choices=['candidate', 'stable']
ReleaseTypes == {"candidate", "stable"}

\* version strings the caller passes
Versions == {"1.0", "2.0"}

\* filename = f"release_{release_type}_{version}.json"
MetadataFilename(t, v) == "release_" \o t \o "_" \o v \o ".json"

\* notes_filename = f"RELEASE_NOTES_{args.version}.md"
NotesFilename(v) == "RELEASE_NOTES_" \o v \o ".md"

\* s3_key = f"releases/{filename}"
S3Key(filename) == "releases/" \o filename

NoMetadata == [release_type |-> "", version |-> "", creation_time |-> 0,
               endpoint_status |-> "", model_arn |-> ""]

\* create_release_metadata: a describe call that raises leaves its info fields
\* empty; creation_time is the invocation's own
CreateReleaseMetadata(t, v, n, endpoint_ok, model_ok) ==
  [release_type |-> t, version |-> v, creation_time |-> n,
   endpoint_status |-> IF endpoint_ok THEN "InService" ELSE "",
   model_arn |-> IF model_ok THEN "arn:model" ELSE ""]

\* create_release_notes: the text is made of the metadata's fields
CreateReleaseNotes(m) == [notes_of |-> m]

\* open(name, 'w') followed by a write: the file is created or replaced
WriteFile(fs, name, contents) ==
  [n \in DOMAIN fs \cup {name} |-> IF n = name THEN contents ELSE fs[n]]

\* the provider either knows the endpoint and the model of the releases or does
\* not, and its describe calls answer or raise accordingly
InitRelease ==
  /\ endpoint_found \in BOOLEAN /\ model_found \in BOOLEAN
  /\ rpc = "idle" /\ invocation = 0 /\ release_type = "" /\ version = ""
  /\ release_bucket = FALSE /\ create_tag = FALSE /\ webhook_url = FALSE
  /\ release_metadata = NoMetadata
  /\ files = <<>> /\ s3_store = <<>> /\ tags = {} /\ outcomes = <<>>
  /\ upload = "none"

\* the process ends: its arguments and its dictionary are gone, its exit status
\* and what it wrote remain
Exit(code, up) ==
  /\ outcomes' = Append(outcomes, [release_type |-> release_type, version |-> version,
                                    exit |-> code, at |-> rpc,
                                    upload_failed |-> (up = "failed")])
  /\ rpc' = "exited"
  /\ upload' = "none"
  /\ release_type' = "" /\ version' = ""
  /\ release_bucket' = FALSE /\ create_tag' = FALSE /\ webhook_url' = FALSE
  /\ release_metadata' = NoMetadata

\* main parses its arguments and calls create_release_metadata
ReleaseStart ==
  /\ rpc \in {"idle", "exited"}
  /\ CleanupIdle /\ WaitIdle
  /\ invocation < MaxReleases
  /\ invocation' = invocation + 1
  /\ \E t \in ReleaseTypes, v \in Versions :
       /\ release_type' = t /\ version' = v
       /\ release_metadata' = CreateReleaseMetadata(t, v, invocation + 1,
                                                     endpoint_found, model_found)
  /\ \E b \in BOOLEAN, g \in BOOLEAN, w \in BOOLEAN :
       release_bucket' = b /\ create_tag' = g /\ webhook_url' = w
  /\ rpc' = "save"
  /\ UNCHANGED <<files, s3_store, tags, outcomes, upload, endpoint_found, model_found>>
  /\ issued' = issued \cup {<<"release", "describe_endpoint">>,
                              <<"release", "describe_model">>}
  /\ UNCHANGED notReleaseVars

\* "if s3_bucket:" guards the put_object call
UploadOutcome(bucket, upload_ok) ==
  IF ~bucket THEN "none" ELSE IF upload_ok THEN "ok" ELSE "failed"

\* faulty variant of OnUploadError: the upload error reaches main
OnUploadErrorRaise == "exited"

\* "except Exception as e: logger.error(...)" around put_object: the step that
\* follows a failed upload (save_release_metadata returns, main writes the notes)
OnUploadError == "notes"

\* save_release_metadata: the local file is written, then uploaded if a bucket was
\* given; a failing upload is logged
SaveMetadataOk ==
  /\ rpc = "save"
  /\ LET filename == MetadataFilename(release_metadata.release_type, release_metadata.version) IN
     /\ files' = WriteFile(files, filename, release_metadata)
     /\ \E upload_ok \in BOOLEAN :
          LET up == UploadOutcome(release_bucket, upload_ok) IN
          /\ s3_store' = IF up = "ok"
                         THEN WriteFile(s3_store, S3Key(filename), release_metadata)
                         ELSE s3_store
          /\ IF up = "failed" /\ OnUploadError = "exited"
             THEN Exit(1, up)
             ELSE /\ rpc' = "notes"
                  /\ upload' = up
                  /\ UNCHANGED <<release_type, version, release_bucket, create_tag,
                                 webhook_url, release_metadata, outcomes>>
  /\ UNCHANGED <<invocation, tags, endpoint_found, model_found>>
  /\ IF release_bucket THEN Issue("release", "put_object") ELSE UNCHANGED issued
  /\ UNCHANGED notReleaseVars

\* the local write raises (open or json.dump): main logs and exit(1)
SaveMetadataFail ==
  /\ rpc = "save"
  /\ Exit(1, upload)
  /\ UNCHANGED <<invocation, files, s3_store, tags, endpoint_found, model_found>>
  /\ UNCHANGED issued
  /\ UNCHANGED notReleaseVars

\* main builds the release notes and writes them
SaveNotesOk ==
  /\ rpc = "notes"
  /\ files' = WriteFile(files, NotesFilename(version), CreateReleaseNotes(release_metadata))
  /\ rpc' = "tag"
  /\ UNCHANGED <<invocation, release_type, version, release_bucket, create_tag,
                 webhook_url, release_metadata, s3_store, tags, outcomes, upload,
                 endpoint_found, model_found>>
  /\ UNCHANGED issued
  /\ UNCHANGED notReleaseVars

\* writing the notes raises: main logs and exit(1)
SaveNotesFail ==
  /\ rpc = "notes"
  /\ Exit(1, upload)
  /\ UNCHANGED <<invocation, files, s3_store, tags, endpoint_found, model_found>>
  /\ UNCHANGED issued
  /\ UNCHANGED notReleaseVars

\* "if args.create_tag": git tag -a version; a failing git is logged
CreateGitTag ==
  /\ rpc = "tag"
  /\ \E git_ok \in BOOLEAN :
       tags' = IF create_tag /\ git_ok /\ version \notin tags
               THEN tags \cup {version} ELSE tags
  /\ rpc' = "notify"
  /\ UNCHANGED <<invocation, release_type, version, release_bucket, create_tag,
                 webhook_url, release_metadata, files, s3_store, outcomes, upload,
                 endpoint_found, model_found>>
  /\ IF create_tag THEN Issue("release", "git tag") ELSE UNCHANGED issued
  /\ UNCHANGED notReleaseVars

\* faulty variant of OnNotifyError: the failed post reaches main
OnNotifyErrorRaise == "raised"

\* "except Exception as e: logger.error(...)" around requests.post: what
\* becomes of a failed post
OnNotifyError == "logged"

\* "if not webhook_url: return" guards the post
NotifyOutcome(webhook, post_ok) ==
  IF ~webhook THEN "none" ELSE IF post_ok THEN "ok" ELSE "failed"

\* notify_release (a failing post is logged), the closing prints, and the
\* process ends with status 0
NotifyAndExit ==
  /\ rpc = "notify"
  /\ \E post_ok \in BOOLEAN :
       IF NotifyOutcome(webhook_url, post_ok) = "failed"
       THEN Exit(IF OnNotifyError = "raised" THEN 1 ELSE 0, upload)
       ELSE Exit(0, upload)
  /\ UNCHANGED <<invocation, files, s3_store, tags, endpoint_found, model_found>>
  /\ UNCHANGED issued
  /\ UNCHANGED notReleaseVars

NextRelease ==
  \/ ReleaseStart
  \/ SaveMetadataOk
  \/ SaveMetadataFail
  \/ SaveNotesOk
  \/ SaveNotesFail
  \/ CreateGitTag
  \/ NotifyAndExit

(* -------------------------- create_zip_package.py --------------------- *)

\* --project-type: choices=['training', 'inference'], or not given
ProjectTypeArgs == {"", "training", "inference"}

\* manifest.json: missing or unreadable ("absent"), or its project_type entry
ManifestTypes == {"absent", "training", "inference", "unknown", "other"}

\* --training-output: not given, a path that does not exist, an empty directory,
\* a directory with files
TrainingOutputs == {"unset", "missing", "empty", "files"}

\* the packagings explored: arguments and working directory
PackageInputs ==
  [release_type : ReleaseTypes, project_type : ProjectTypeArgs, manifest : ManifestTypes,
   source : BOOLEAN, project_files : BOOLEAN, training_output : TrainingOutputs,
   endpoint_name : BOOLEAN, ci_file : BOOLEAN, bucket : BOOLEAN]

NoPackageInput ==
  [release_type |-> "candidate", project_type |-> "", manifest |-> "absent",
   source |-> FALSE, project_files |-> FALSE, training_output |-> "unset",
   endpoint_name |-> FALSE, ci_file |-> FALSE, bucket |-> FALSE]

\* get_project_type_from_manifest
GetProjectTypeFromManifest(manifest) ==
  IF manifest = "absent" THEN "unknown" ELSE manifest

\* "if not project_type: project_type = get_project_type_from_manifest()"
ResolveProjectType(in) ==
  IF in.project_type = "" THEN GetProjectTypeFromManifest(in.manifest) ELSE in.project_type

\* add_source_code: the files with a listed suffix under src/, scripts/, tests/
AddSourceCode(in) == IF in.source THEN {"source"} ELSE {}

\* add_training_files / add_inference_files: those of the listed files that exist
AddTrainingFiles(in) == IF in.project_files THEN {"training_files"} ELSE {}

AddInferenceFiles(in) == IF in.project_files THEN {"inference_files"} ELSE {}

\* "if training_output_dir and os.path.exists(training_output_dir):
\*  add_model_artifacts(...)": the files walked under the directory
AddModelArtifacts(in) == IF in.training_output = "files" THEN {"model_artifacts"} ELSE {}

\* "if endpoint_name: add_endpoint_configs(zipf, endpoint_name)"
AddEndpointConfigs(in) == IF in.endpoint_name THEN {"endpoint_config.json"} ELSE {}

\* the branch on project_type in create_zip_package
AddProjectFiles(pt, in) ==
  IF pt = "inference"
  THEN AddInferenceFiles(in) \cup AddEndpointConfigs(in)
  ELSE AddTrainingFiles(in) \cup AddModelArtifacts(in)

\* get_package_contents
GetPackageContents(pt) ==
  CASE pt = "training" ->
         <<"Source code (src/, scripts/, tests/)", "Training scripts and configurations",
           "Model artifacts (if available)", "Deployment configurations",
           "Documentation and release notes">>
    [] pt = "inference" ->
         <<"Source code (src/, scripts/, tests/)", "Inference handler scripts",
           "Endpoint configurations", "Deployment configurations",
           "Documentation and release notes">>
    [] OTHER ->
         <<"Source code (src/, scripts/, tests/)", "Project files and configurations",
           "Deployment configurations", "Documentation and release notes">>

\* positional arguments of the call "add_documentation(zipf, release_type, pr_id,
\* commit_id, project_type)" in create_zip_package
DocumentationArgsPassed == 5

\* parameters of "def add_documentation(zipf, release_type, pr_id, commit_id)"
DocumentationParams == 4

\* a call with positional arguments only, of a function without defaults, is
\* accepted iff the counts agree; otherwise it raises TypeError
CallAccepted(passed, params) == passed = params

InitPackage ==
  /\ zpc = "idle" /\ zcaller = "none" /\ zin = NoPackageInput /\ project_type = ""
  /\ archive = {} /\ steps = <<>> /\ metadata_json = <<>> /\ zip_result = <<>>

\* create_zip_package is entered, or a caller starts running the step functions:
\* the project type is resolved and the zip file opened
PackageStart ==
  /\ zpc = "idle"
  /\ zcaller' \in {"create_zip_package", "steps"}
  /\ zin' \in PackageInputs
  /\ zin'.ci_file = FALSE /\ zin'.bucket = FALSE
  /\ project_type' = ResolveProjectType(zin')
  /\ zpc' = "source"
  /\ UNCHANGED <<archive, steps, metadata_json, zip_result>>
  /\ UNCHANGED issued
  /\ UNCHANGED notPackageVars

\* add_source_code(zipf)
SourceStep ==
  /\ zpc = "source"
  /\ archive' = archive \cup AddSourceCode(zin)
  /\ steps' = Append(steps, "source code")
  /\ zpc' = "project"
  /\ UNCHANGED <<zcaller, zin, project_type, metadata_json, zip_result>>
  /\ UNCHANGED issued
  /\ UNCHANGED notPackageVars

\* the project-specific files of the branch on project_type
ProjectStep ==
  /\ zpc = "project"
  /\ archive' = archive \cup AddProjectFiles(project_type, zin)
  /\ steps' = Append(steps, "project files")
  /\ zpc' = "deployment"
  /\ UNCHANGED <<zcaller, zin, project_type, metadata_json, zip_result>>
  /\ UNCHANGED issued
  /\ UNCHANGED notPackageVars

\* add_deployment_configs: deployment_config.json is always written
DeploymentStep ==
  /\ zpc = "deployment"
  /\ archive' = archive \cup {"deployment_config.json"}
  /\ steps' = Append(steps, "deployment configuration")
  /\ zpc' = "documentation"
  /\ UNCHANGED <<zcaller, zin, project_type, metadata_json, zip_result>>
  /\ UNCHANGED issued
  /\ UNCHANGED notPackageVars

\* add_documentation: create_zip_package calls it with DocumentationArgsPassed
\* arguments, a caller running the steps itself with the declared ones; a call
\* that is not accepted raises TypeError, which leaves the with-block (the zip
\* file is closed with what was written) and create_zip_package
DocumentationStep ==
  /\ zpc = "documentation"
  /\ LET passed == IF zcaller = "create_zip_package"
                   THEN DocumentationArgsPassed ELSE DocumentationParams IN
     IF CallAccepted(passed, DocumentationParams)
     THEN /\ archive' = archive \cup {"RELEASE_NOTES.md"}
          /\ steps' = Append(steps, "documentation")
          /\ zpc' = "metadata"
     ELSE /\ zpc' = "raised"
          /\ UNCHANGED <<archive, steps>>
  /\ UNCHANGED <<zcaller, zin, project_type, metadata_json, zip_result>>
  /\ UNCHANGED issued
  /\ UNCHANGED notPackageVars

\* add_metadata: metadata.json with package_contents = get_package_contents(...);
\* the with-block ends and zip_name is returned
MetadataStep ==
  /\ zpc = "metadata"
  /\ archive' = archive \cup {"metadata.json"}
  /\ metadata_json' = <<[release_type |-> zin.release_type,
                          project_type |-> project_type,
                          package_contents |-> GetPackageContents(project_type)]>>
  /\ steps' = Append(steps, "metadata")
  /\ zip_result' = <<"zip_name">>
  /\ zpc' = "returned"
  /\ UNCHANGED <<zcaller, zin, project_type>>
  /\ UNCHANGED issued
  /\ UNCHANGED notPackageVars

(* -------------------- train-script/create_zip_package.py -------------- *)

\* main: metadata.json, then the training output if given and existing, then
\* .gitlab-ci.yml and src/ if they exist; the upload is attempted if
\* GITLAB_ARTIFACTS_BUCKET is set and a failure of it is printed; return 0
TrainScriptPackage ==
  /\ zpc = "idle"
  /\ zcaller' = "train-script"
  /\ zin' \in PackageInputs
  /\ zin'.project_type = "" /\ zin'.manifest = "absent"
  /\ zin'.project_files = FALSE /\ zin'.endpoint_name = FALSE
  /\ archive' = {"metadata.json"}
                  \cup (IF zin'.training_output = "files" THEN {"training_output"} ELSE {})
                  \cup (IF zin'.ci_file THEN {".gitlab-ci.yml"} ELSE {})
                  \cup (IF zin'.source THEN {"source"} ELSE {})
  /\ steps' = <<"metadata", "training output", "ci configuration", "source code">>
  /\ zip_result' = <<0>>
  /\ zpc' = "returned"
  /\ UNCHANGED <<project_type, metadata_json>>
  /\ UNCHANGED issued
  /\ UNCHANGED notPackageVars

NextPackage ==
  \/ PackageStart
  \/ SourceStep
  \/ ProjectStep
  \/ DeploymentStep
  \/ DocumentationStep
  \/ MetadataStep
  \/ TrainScriptPackage

(* ------- train_sagemaker.py / deploy_endpoint.py: resource creation --- *)

\* self.xgboost_containers: the registry account of the XGBoost image, by region
XGBoostContainers ==
  [r \in {"us-east-1", "us-west-2", "us-east-2", "us-west-1", "eu-west-1", "eu-central-1",
          "ap-southeast-1", "ap-southeast-2", "ap-northeast-1", "ca-central-1"} |->
     CASE r = "us-east-1"      -> "683313688378"
       [] r = "us-west-2"      -> "433757028032"
       [] r = "us-east-2"      -> "257758044811"
       [] r = "us-west-1"      -> "433757028032"
       [] r = "eu-west-1"      -> "685385470294"
       [] r = "eu-central-1"   -> "438346466558"
       [] r = "ap-southeast-1" -> "544295431143"
       [] r = "ap-southeast-2" -> "666831318237"
       [] r = "ap-northeast-1" -> "351501993468"
       [] OTHER                -> "469771592824"]

\* regions passed as --region
Regions == DOMAIN XGBoostContainers \cup {"eu-west-3", "sa-east-1", "af-south-1"}

\* faulty variant of GetXGBoostContainerUri: an unmapped region gets the image of
\* us-east-1
GetXGBoostContainerUriWithDefault(r) ==
  IF r \in DOMAIN XGBoostContainers
  THEN <<XGBoostContainers[r] \o ".dkr.ecr." \o r \o ".amazonaws.com/sagemaker-xgboost:1.7-1">>
  ELSE <<XGBoostContainers["us-east-1"]
           \o ".dkr.ecr.us-east-1.amazonaws.com/sagemaker-xgboost:1.7-1">>

\* get_xgboost_container_uri: <<uri>>, or <<>> where it raises ValueError
GetXGBoostContainerUri(r) ==
  IF r \in DOMAIN XGBoostContainers
  THEN <<XGBoostContainers[r] \o ".dkr.ecr." \o r \o ".amazonaws.com/sagemaker-xgboost:1.7-1">>
  ELSE <<>>

InitCreate ==
  /\ kpc = "idle" /\ create_op = "none" /\ create_caller = "none" /\ region = ""
  /\ container_uri = <<>> /\ lookups = 0 /\ provider_calls = <<>>
  /\ create_error = "" /\ create_exit = <<>>

\* create_training_job or create_model is entered, called directly or by its main
CreateStart ==
  /\ kpc = "idle"
  /\ create_op' \in {"create_training_job", "create_model"}
  /\ create_caller' \in {"call", "main"}
  /\ region' \in Regions
  /\ kpc' = "lookup"
  /\ UNCHANGED <<container_uri, lookups, provider_calls, create_error, create_exit>>
  /\ UNCHANGED issued
  /\ UNCHANGED notCreateVars

\* "container_uri = self.get_xgboost_container_uri()": a ValueError is caught by
\* the method's handler, logged and re-raised
ContainerLookup ==
  /\ kpc = "lookup"
  /\ lookups' = lookups + 1
  /\ container_uri' = GetXGBoostContainerUri(region)
  /\ IF container_uri' = <<>>
     THEN kpc' = "raised" /\ create_error' = "ValueError"
     ELSE kpc' = "request" /\ create_error' = ""
  /\ UNCHANGED <<create_op, create_caller, region, provider_calls, create_exit>>
  /\ UNCHANGED issued
  /\ UNCHANGED notCreateVars

\* self.sagemaker_client.create_training_job(...) / create_model(...): the request
\* is sent; the provider answers with the ARN or the call raises
ProviderCreate ==
  /\ kpc = "request"
  /\ provider_calls' = Append(provider_calls, create_op)
  /\ \E ok \in BOOLEAN :
       IF ok THEN kpc' = "returned" /\ create_error' = ""
       ELSE kpc' = "raised" /\ create_error' = "ClientError"
  /\ UNCHANGED <<create_op, create_caller, region, container_uri, lookups, create_exit>>
  /\ Issue(create_op, create_op)
  /\ UNCHANGED notCreateVars

\* main's "except Exception": the error is logged and the process exits 1
CreateMainExit ==
  /\ kpc = "raised" /\ create_caller = "main" /\ create_exit = <<>>
  /\ create_exit' = <<1>>
  /\ UNCHANGED <<kpc, create_op, create_caller, region, container_uri, lookups,
                 provider_calls, create_error>>
  /\ UNCHANGED issued
  /\ UNCHANGED notCreateVars

NextCreate ==
  \/ CreateStart
  \/ ContainerLookup
  \/ ProviderCreate
  \/ CreateMainExit

(* ----------------------------- register_model.py ---------------------- *)

RegisterCallers == {"main", "create_model_package_group", "create_model_package"}

\* one request to the provider: its operation, its answer, and whether the group
\* existed when it was sent
RegCall(op, answer) == [op |-> op, answer |-> answer, group |-> group_exists]

SendRequest(op, answer) ==
  /\ reg_calls' = Append(reg_calls, RegCall(op, answer))
  /\ Issue("register_model", op)

\* faulty variant of JobIsCompleted: a stopped job's artifacts are accepted too
JobIsCompletedOrStopped(status) == status \in {"Completed", "Stopped"}

\* "if response['TrainingJobStatus'] != 'Completed': raise ValueError"
JobIsCompleted(status) == status = "Completed"

\* the job is under way and its group not yet made when the pipeline is set up
InitRegister ==
  /\ gpc = "idle" /\ reg_caller = "none"
  /\ reg_job_status = "InProgress"
  /\ group_exists = FALSE
  /\ auto_approve = FALSE
  /\ reg_calls = <<>> /\ package_arn = <<>> /\ reg_exit = <<>>

\* an exception leaves the method ("except Exception: logger.error; raise"); in
\* main it is logged and the process ends with exit(1)
RegisterRaise ==
  IF reg_caller = "main"
  THEN gpc' = "exited" /\ reg_exit' = <<1>>
  ELSE gpc' = "raised" /\ reg_exit' = reg_exit

\* main parses its arguments and calls create_model_package_group; or one of the
\* two methods is called directly. By the first call the job has reached some
\* status and the group may have been made by an earlier pipeline
RegisterStart ==
  /\ gpc = "idle"
  /\ \E c \in RegisterCallers, a \in BOOLEAN :
       /\ reg_caller' = c
       /\ auto_approve' = (a /\ c = "main")
       /\ gpc' = IF c = "create_model_package" THEN "describe_job" ELSE "group"
  /\ \E status \in TrainingJobStatuses, g \in BOOLEAN :
       IF reg_calls = <<>>
       THEN reg_job_status' = status /\ group_exists' = g
       ELSE UNCHANGED <<reg_job_status, group_exists>>
  /\ UNCHANGED <<reg_calls, package_arn, reg_exit>>
  /\ UNCHANGED issued
  /\ UNCHANGED notRegisterVars

\* describe_model_package_group: the group is returned, or ResourceNotFound is
\* swallowed and the group is to be created, or another error is re-raised
DescribeGroup ==
  /\ gpc = "group"
  /\ \E answer \in {IF group_exists THEN "found" ELSE "not_found", "error"} :
       /\ SendRequest("describe_model_package_group", answer)
       /\ CASE answer = "found" ->
                 /\ gpc' = IF reg_caller = "main" THEN "describe_job" ELSE "returned"
                 /\ reg_exit' = reg_exit
            [] answer = "not_found" -> gpc' = "create_group" /\ reg_exit' = reg_exit
            [] OTHER -> RegisterRaise
  /\ UNCHANGED <<reg_caller, reg_job_status, group_exists, auto_approve, package_arn>>
  /\ UNCHANGED notRegisterVars

\* create_model_package_group at the provider
CreateGroup ==
  /\ gpc = "create_group"
  /\ \E ok \in BOOLEAN :
       /\ SendRequest("create_model_package_group", IF ok THEN "ok" ELSE "error")
       /\ group_exists' = (group_exists \/ ok)
       /\ IF ok
          THEN /\ gpc' = IF reg_caller = "main" THEN "describe_job" ELSE "returned"
               /\ reg_exit' = reg_exit
          ELSE RegisterRaise
  /\ UNCHANGED <<reg_caller, reg_job_status, auto_approve, package_arn>>
  /\ UNCHANGED notRegisterVars

\* create_model_package begins with get_training_job_info: describe_training_job,
\* then the status test
GetTrainingJobInfo ==
  /\ gpc = "describe_job"
  /\ \E ok \in BOOLEAN :
       /\ SendRequest("describe_training_job", IF ok THEN reg_job_status ELSE "error")
       /\ IF ok /\ JobIsCompleted(reg_job_status)
          THEN gpc' = "create_package" /\ reg_exit' = reg_exit
          ELSE RegisterRaise
  /\ UNCHANGED <<reg_caller, reg_job_status, group_exists, auto_approve, package_arn>>
  /\ UNCHANGED notRegisterVars

\* create_model_package at the provider
CreatePackage ==
  /\ gpc = "create_package"
  /\ \E ok \in BOOLEAN :
       /\ SendRequest("create_model_package", IF ok THEN "ok" ELSE "error")
       /\ IF ok
          THEN /\ package_arn' = <<"arn:model-package">>
               /\ gpc' = IF reg_caller = "main" THEN "approve" ELSE "returned"
               /\ reg_exit' = reg_exit
          ELSE package_arn' = package_arn /\ RegisterRaise
  /\ UNCHANGED <<reg_caller, reg_job_status, group_exists, auto_approve>>
  /\ UNCHANGED notRegisterVars

\* "if args.auto_approve": approve_model_package sends update_model_package
ApprovePackage ==
  /\ gpc = "approve" /\ auto_approve
  /\ \E ok \in BOOLEAN :
       /\ SendRequest("update_model_package", IF ok THEN "ok" ELSE "error")
       /\ IF ok THEN gpc' = "save" /\ reg_exit' = reg_exit ELSE RegisterRaise
  /\ UNCHANGED <<reg_caller, reg_job_status, group_exists, auto_approve, package_arn>>
  /\ UNCHANGED notRegisterVars

\* without --auto-approve main goes on to model_package_info.json
SkipApproval ==
  /\ gpc = "approve" /\ ~auto_approve
  /\ gpc' = "save"
  /\ UNCHANGED <<reg_caller, reg_job_status, group_exists, auto_approve, reg_calls,
                 package_arn, reg_exit>>
  /\ UNCHANGED issued
  /\ UNCHANGED notRegisterVars

\* main writes model_package_info.json and ends; a failing write is logged and
\* the process ends with exit(1)
SaveModelInfo ==
  /\ gpc = "save"
  /\ \E ok \in BOOLEAN : reg_exit' = IF ok THEN <<0>> ELSE <<1>>
  /\ gpc' = "exited"
  /\ UNCHANGED <<reg_caller, reg_job_status, group_exists, auto_approve, reg_calls,
                 package_arn>>
  /\ UNCHANGED issued
  /\ UNCHANGED notRegisterVars

\* the same or another method is called on the registry again: the provider keeps
\* its state and the record of requests goes on
RegisterAgain ==
  /\ gpc \in {"returned", "raised"}
  /\ Len(reg_calls) < MaxRegCalls
  /\ gpc' = "idle" /\ reg_caller' = "none"
  /\ UNCHANGED <<reg_job_status, group_exists, auto_approve, reg_calls, package_arn, reg_exit>>
  /\ UNCHANGED issued
  /\ UNCHANGED notRegisterVars

NextRegister ==
  \/ RegisterStart
  \/ DescribeGroup
  \/ CreateGroup
  \/ GetTrainingJobInfo
  \/ CreatePackage
  \/ ApprovePackage
  \/ SkipApproval
  \/ SaveModelInfo
  \/ RegisterAgain

(* ------------------- server-scripts/check_gitlab_health.py ------------ *)

\* the list "checks" of run_all_checks, in its order
Checks == <<"Network Connectivity", "SSH Connectivity", "GitLab Services",
            "Web Interface", "External URL Config", "System Resources">>

\* a check returns True, returns False, or raises an Exception
CheckOutcomes == {"pass", "fail", "raise"}

\* faulty variant of OverallStatus: the warning threshold at 60%
OverallStatusSixtyPercent(passed, total) ==
  IF passed = total THEN "healthy"
  ELSE IF 10 * passed >= total * 6 THEN "warning"
  ELSE "unhealthy"

\* "if passed_checks == total_checks ... elif passed_checks >= total_checks * 0.7"
OverallStatus(passed, total) ==
  IF passed = total THEN "healthy"
  ELSE IF 10 * passed >= total * 7 THEN "warning"
  ELSE "unhealthy"

\* main: sys.exit(0) for 'healthy', sys.exit(1) for 'warning', sys.exit(2) otherwise
HealthExitCode(status) ==
  IF status = "healthy" THEN 0 ELSE IF status = "warning" THEN 1 ELSE 2

InitHealth ==
  /\ hpc = "idle" /\ hcaller = "none"
  /\ ran = <<>> /\ passed_checks = 0
  /\ overall_status = "unknown" /\ health_exit = <<>>

\* main parses its arguments, finds the server's address and calls
\* run_all_checks, or ends with exit(1) when the address cannot be detected;
\* or run_all_checks is called directly
HealthStart ==
  /\ hpc = "idle"
  /\ \E c \in {"run_all_checks", "main"}, ip_given \in BOOLEAN, detect_ok \in BOOLEAN :
       /\ hcaller' = c
       /\ IF c = "main" /\ ~ip_given /\ ~detect_ok
          THEN hpc' = "exited" /\ health_exit' = <<1>>
          ELSE hpc' = "checks" /\ health_exit' = health_exit
  /\ UNCHANGED <<ran, passed_checks, overall_status>>
  /\ UNCHANGED issued
  /\ UNCHANGED notHealthVars

\* one turn of "for check_name, check_func in checks": a True adds to
\* passed_checks, an exception is logged
RunCheck ==
  /\ hpc = "checks"
  /\ Len(ran) < Len(Checks)
  /\ \E o \in CheckOutcomes :
       /\ ran' = Append(ran, <<Checks[Len(ran) + 1], o>>)
       /\ passed_checks' = IF o = "pass" THEN passed_checks + 1 ELSE passed_checks
  /\ UNCHANGED <<hpc, hcaller, overall_status, health_exit>>
  /\ UNCHANGED issued
  /\ UNCHANGED notHealthVars

\* after the loop: the overall status and the summary; run_all_checks returns
Classify ==
  /\ hpc = "checks"
  /\ Len(ran) = Len(Checks)
  /\ overall_status' = OverallStatus(passed_checks, Len(Checks))
  /\ hpc' = IF hcaller = "main" THEN "save" ELSE "returned"
  /\ UNCHANGED <<hcaller, ran, passed_checks, health_exit>>
  /\ UNCHANGED issued
  /\ UNCHANGED notHealthVars

\* main saves the results unless --no-save (a failing save is logged) and exits
\* with the code of the overall status
HealthMainExit ==
  /\ hpc = "save"
  /\ health_exit' = <<HealthExitCode(overall_status)>>
  /\ hpc' = "exited"
  /\ UNCHANGED <<hcaller, ran, passed_checks, overall_status>>
  /\ UNCHANGED issued
  /\ UNCHANGED notHealthVars

NextHealth ==
  \/ HealthStart
  \/ RunCheck
  \/ Classify
  \/ HealthMainExit

(* --------------------------- specifications --------------------------- *)

NextCleanup ==
  \/ CallOp
  \/ MainStart
  \/ ListOk
  \/ ListFail
  \/ DeleteItem
  \/ RunNext
  \/ RunFinish
  \/ RunFail
  \/ Rerun

Init ==
  /\ issued = {}
  /\ InitCleanup /\ InitWait /\ InitRelease /\ endpoint_found /\ model_found
  /\ InitPackage /\ InitCreate /\ InitRegister /\ InitHealth

InitAnyProvider ==
  /\ issued = {}
  /\ InitCleanup /\ InitWait /\ InitRelease /\ InitPackage /\ InitCreate /\ InitRegister /\ InitHealth

SpecCleanup == Init /\ [][NextCleanup]_vars

SpecWait == Init /\ [][NextWait]_vars

\* a running script keeps executing: each of its steps that stays enabled is taken
SpecWaitFair == SpecWait /\ WF_vars(NextWait)

SpecRelease == InitAnyProvider /\ [][NextRelease]_vars

SpecPackage == Init /\ [][NextPackage]_vars

SpecCreate == Init /\ [][NextCreate]_vars

\* the three components that act on provisioned resources, one script per behaviour
NextFrame ==
  \/ NextCleanup
  \/ NextWait
  \/ NextRelease

SpecFrame == Init /\ [][NextFrame]_vars

SpecRegister == Init /\ [][NextRegister]_vars

SpecHealth == Init /\ [][NextHealth]_vars

(* ---------------------- properties of the cleanup --------------------- *)

\* identifiers of the delete calls in a call log, in call order
RECURSIVE DeleteIds(_)
DeleteIds(cs) ==
  IF cs = <<>> THEN <<>>
  ELSE (IF Head(cs).op = "delete" THEN <<Head(cs).id>> ELSE <<>>) \o DeleteIds(Tail(cs))

SeqRange(q) == {q[i] : i \in 1..Len(q)}

\* identifiers the running operation selected, reported or passed to a delete call
Touched == SeqRange(to_delete) \cup SeqRange(would_log) \cup SeqRange(DeleteIds(calls))

\* the deletable statuses of each resource type as the specification gives them
SpecAllowList(t) ==
  CASE t = "training_jobs"  -> {"Completed", "Failed", "Stopped"}
    [] t = "endpoints"      -> {"Failed", "OutOfService"}
    [] t = "model_packages" -> {"Rejected", "PendingManualApproval"}
    [] OTHER                -> {"n/a"}

\* C1: in every cleanup operation a listed resource whose age (now minus its
\* creation / last-modified time) is less than the operation's retention_days is
\* never selected, never reported and never passed to a delete call, whatever
\* its status.
C1_YoungNeverSelected ==
  \A i \in 1..Len(listing) :
    (now - listing[i].created < op_retention) => listing[i].id \notin Touched

\* C1 witness: a live operation has returned after a successful delete while the
\* listing also held a younger resource in a deletable status, which it left alone.
C1_Witness ==
  /\ cpc = "returned" /\ ~dry_run /\ Len(deleted_items) > 0
  /\ \E i \in 1..Len(listing) :
       /\ now - listing[i].created < op_retention
       /\ listing[i].status \in SpecAllowList(rtype)
       /\ listing[i].id \notin Touched

C3_DryRunIssuesNoDelete ==
  (caller # "none" /\ dry_run) => (DeleteIds(calls) = <<>> /\ removed = {})

\* C3 witness: a dry-run run_cleanup has ended with its summary written, its last
\* operation having selected a resource.
C3_Witness ==
  /\ caller = "run" /\ dry_run /\ cpc = "done" /\ summary # <<>>
  /\ to_delete # <<>>

\* C4: when a live operation returns, every listed-and-selected resource has had
\* exactly one delete attempt and no other resource has had any, whichever
\* attempts failed; and an operation raises only from its list call, never from
\* a failed delete.
C4_EveryEligibleAttemptedOnce ==
  /\ (cpc = "returned" /\ ~dry_run) =>
       DeleteIds(calls) = SelectToDelete(rtype, listing, cutoff_date)
  /\ (cpc = "raised") => DeleteIds(calls) = <<>>

\* C4 witness: a live operation has returned after two delete attempts of which
\* the first failed.
C4_Witness ==
  /\ cpc = "returned" /\ ~dry_run
  /\ Len(DeleteIds(calls)) >= 2
  /\ \E i \in 1..Len(calls) :
       /\ calls[i].op = "delete" /\ ~calls[i].ok
       /\ \E j \in (i + 1)..Len(calls) : calls[j].op = "delete"

\* C8: a live operation run on the inputs of a dry run (same listing, retention
\* and time) selects and attempts to delete exactly what the dry run reported.
C8_DryRunAndLiveSelectTheSame ==
  (reran /\ cpc = "returned") =>
     (to_delete = prev_would /\ DeleteIds(calls) = prev_would)

\* C8 witness: such a live repetition has returned having attempted the two
\* resources the dry run reported.
C8_Witness ==
  /\ reran /\ cpc = "returned" /\ Len(prev_would) >= 2
  /\ DeleteIds(calls) = prev_would

\* C9: the result of a dry-run operation is the list of identifiers that would be
\* deleted (the selected set).
C9_DryRunResultIsEligibleSet ==
  (cpc = "returned" /\ dry_run) =>
     op_result = <<SelectToDelete(rtype, listing, cutoff_date)>>

\* C10 as stated: a listed resource is selected iff its age is at least
\* retention_days and its status is in the allow-list.
C10_SelectedIffAgeAtLeastRetention ==
  (cpc = "returned") =>
     \A i \in 1..Len(listing) :
        listing[i].id \in SeqRange(to_delete)
          <=> (/\ now - listing[i].created >= op_retention
               /\ listing[i].status \in SpecAllowList(rtype))

\* C10 amended: a listed resource is selected iff its age is greater than
\* retention_days and its status is in the allow-list; a resource whose age is
\* exactly retention_days is not selected.
C10_SelectedIffOlderThanRetention ==
  (cpc = "returned") =>
     \A i \in 1..Len(listing) :
        listing[i].id \in SeqRange(to_delete)
          <=> (/\ now - listing[i].created > op_retention
               /\ listing[i].status \in SpecAllowList(rtype))

\* C10 witness: a training-job operation has returned having selected a Completed
\* job older than retention_days and left alone an InProgress job older than
\* retention_days or a Completed job of age exactly retention_days.
C10_Witness ==
  /\ cpc = "returned" /\ rtype = "training_jobs" /\ op_retention > 0
  /\ \E i \in 1..Len(listing) :
       /\ listing[i].status = "Completed"
       /\ now - listing[i].created > op_retention
       /\ listing[i].id \in SeqRange(to_delete)
  /\ \E i \in 1..Len(listing) :
       /\ listing[i].id \notin SeqRange(to_delete)
       /\ \/ listing[i].status = "InProgress" /\ now - listing[i].created > op_retention
          \/ listing[i].status = "Completed" /\ now - listing[i].created = op_retention

\* identifiers of the delete calls in cs whose outcome was ok (TRUE: the call
\* returned, FALSE: it raised), in call order
RECURSIVE DeleteIdsWithOutcome(_, _)
DeleteIdsWithOutcome(cs, ok) ==
  IF cs = <<>> THEN <<>>
  ELSE IF Head(cs).op = "delete" /\ Head(cs).ok = ok
       THEN <<Head(cs).id>> \o DeleteIdsWithOutcome(Tail(cs), ok)
       ELSE DeleteIdsWithOutcome(Tail(cs), ok)

\* C11: when a live cleanup of training jobs returns, the list it returns holds
\* exactly the selected jobs whose delete call succeeded, and every job whose
\* delete call raised is among the failed deletions its result records.
C11_FailedDeletesRecordedInResult ==
  (cpc = "returned" /\ ~dry_run /\ rtype = "training_jobs") =>
     /\ op_result = <<DeleteIdsWithOutcome(calls, TRUE)>>
     /\ SeqRange(DeleteIdsWithOutcome(calls, FALSE)) \subseteq FailedDeletions(op_result[1])

\* C12: a run_cleanup driven by main always ends with the aggregate per-type
\* summary written, whichever list or delete calls failed on the way.
C12_RunAlwaysEndsWithSummary ==
  (caller = "run" /\ cpc = "done") => summary # <<>>

\* C13: when a run_cleanup driven by main has ended, every resource whose delete
\* call succeeded is named, under its type, in the persisted summary.
C13_EveryRemovedResourceInSummary ==
  (caller = "run" /\ cpc = "done") =>
     \A r \in removed :
        summary # <<>> /\ r[2] \in SeqRange(summary[1][r[1]])

\* C25: the retention a run_cleanup applies to a resource type is the value its
\* caller supplied, for models as for training jobs: no multiple of the supplied
\* retention is imposed on any type.
C25_RunAppliesCallerRetention ==
  (caller = "run" /\ rtype \in ResourceTypes) => op_retention = retention_days

(* ---------------------- properties of the wait ------------------------ *)

\* C5: if the first describe_endpoint call of a wait answers InService, Failed or
\* OutOfService, the wait has returned that status after this one call and
\* without any sleep.
C5_TerminalFirstQueryReturnsAtOnce ==
  (Len(seen) >= 1 /\ seen[1].status \in {"InService", "Failed", "OutOfService"}) =>
     (/\ wpc = "returned"
      /\ wait_result = <<seen[1].status>>
      /\ Len(seen) = 1
      /\ sleeps = 0)

\* C5 witness: a wait has returned OutOfService from its first status query.
C5_Witness ==
  /\ wpc = "returned" /\ wait_result = <<"OutOfService">>
  /\ Len(seen) = 1 /\ sleeps = 0

\* C6: no describe_endpoint call is issued at a moment when the time elapsed since
\* the start of the wait exceeds timeout.
C6_NoQueryAfterTimeout ==
  \A i \in 1..Len(seen) : seen[i].at <= timeout

\* C14: a describe_endpoint call that raises is the last thing the wait does: the
\* wait has ended by raising, has returned no status, and has issued no query and
\* executed no sleep after the failed call.
C14_QueryErrorEndsWaitAtOnce ==
  \A i \in 1..Len(seen) :
    (seen[i].status = "error") =>
       (/\ wpc = "raised"
        /\ wait_result = <<>>
        /\ i = Len(seen)
        /\ sleeps = i - 1)

\* C14 witness: a wait has raised from its third status query, after two sleeps.
C14_Witness ==
  /\ wpc = "raised" /\ Len(seen) = 3 /\ seen[3].status = "error"
  /\ seen[1].status = "Creating" /\ sleeps = 2

\* C15: a wait whose budget is smaller than one poll interval (wait_for_endpoint
\* with timeout < 30, wait_for_training_job with max_wait_time < 30) fails with a
\* configuration error before any status query: it issues no query and never
\* returns Timeout.
C15_ShortTimeoutFailsBeforeAnyQuery ==
  /\ (wpc # "idle" /\ timeout < PollInterval) =>
        (seen = <<>> /\ wait_result # <<"Timeout">>)
  /\ (tpc # "idle" /\ max_wait_time < WaiterDelay) => attempts = 0

\* every status query issued so far succeeded with a non-terminal status
OnlyNonTerminalSeen ==
  \A i \in 1..Len(seen) : seen[i].status \in {"Creating", "Updating"}

\* C16: every wait_for_endpoint ends; it raises only if a status query failed; and
\* when every query succeeded with a non-terminal status it has returned
\* 'Timeout', at a moment when the time elapsed since its start is at least timeout.
C16_NonTerminalWaitEndsInTimeout ==
  /\ [](wpc = "query" => <>(wpc \in {"returned", "raised"}))
  /\ [](wpc = "raised" => ~OnlyNonTerminalSeen)
  /\ []((wpc = "returned" /\ OnlyNonTerminalSeen) =>
          (wait_result = <<"Timeout">> /\ clock - start_time >= timeout))

\* C16 witness: a wait with a positive timeout has returned 'Timeout' after three
\* successful non-terminal answers and two sleeps.
C16_Witness ==
  /\ wpc = "returned" /\ wait_result = <<"Timeout">> /\ timeout > 0
  /\ OnlyNonTerminalSeen /\ Len(seen) = 3 /\ sleeps = 2

\* C17: a pipeline stage run with --wait exits non-zero unless its wait succeeded:
\* deploy_endpoint.py exits 1 whenever wait_for_endpoint raised or returned
\* anything but InService, train_sagemaker.py exits 1 whenever the job's final
\* status is not Completed or wait_for_training_job raised (a failed job, a
\* stopped job, the waiter out of attempts, a failed query).
C17_StageFailsUnlessWaitSucceeded ==
  /\ (/\ wait_caller = "main" /\ deploy_exit # <<>>
      /\ wpc \in {"returned", "raised"}
      /\ wait_result # <<"InService">>) => deploy_exit = <<1>>
  /\ (/\ train_caller = "main" /\ train_exit # <<>>
      /\ tpc \in {"returned", "raised"}
      /\ (job_status # "Completed" \/ tpc = "raised")) => train_exit = <<1>>

\* C17 witness: deploy_endpoint.py --wait has exited 1 after wait_for_endpoint
\* returned 'Timeout'.
C17_Witness ==
  /\ wait_caller = "main" /\ wpc = "returned" /\ wait_result = <<"Timeout">>
  /\ deploy_exit = <<1>>

\* C18: a business-terminal state is returned as a value and never raised: a
\* wait_for_endpoint whose last answer was Failed or OutOfService has returned
\* that status, and a wait_for_training_job that observed its job in status
\* Failed or Stopped has returned that status.
C18_TerminalStateReturnedNotRaised ==
  /\ (seen # <<>> /\ seen[Len(seen)].status \in {"Failed", "OutOfService"}) =>
        (wpc = "returned" /\ wait_result = <<seen[Len(seen)].status>>)
  /\ (/\ tpc \in {"returned", "raised"}
      /\ job_status \in {"Failed", "Stopped"}
      /\ train_raise # "query error") =>
        (tpc = "returned" /\ train_result = <<job_status>>)

(* ---------------------- properties of the release --------------------- *)

\* invocations among the first n that ended with exit status 0 for identifier (t, v)
Successes(t, v, n) ==
  {i \in 1..n : /\ outcomes[i].release_type = t /\ outcomes[i].version = v
                /\ outcomes[i].exit = 0}

\* C7: of the invocations with one (release_type, version) at most one succeeds,
\* and release_<type>_<version>.json is not overwritten by a later one: it holds
\* what an invocation no later than the first successful one wrote.
C7_SecondReleaseConflicts ==
  \A t \in ReleaseTypes, v \in Versions :
    LET done == Successes(t, v, Len(outcomes)) IN
    /\ Cardinality(done) <= 1
    /\ (done # {} /\ MetadataFilename(t, v) \in DOMAIN files) =>
         \A i \in done : files[MetadataFilename(t, v)].creation_time <= i

\* C19: the metadata record is the last file a release invocation writes: in every
\* state, whether an invocation is running, has ended or has failed, a working
\* directory holding release_<type>_<version>.json holds RELEASE_NOTES_<version>.md.
C19_MetadataImpliesNotes ==
  \A t \in ReleaseTypes, v \in Versions :
    (MetadataFilename(t, v) \in DOMAIN files) => (NotesFilename(v) \in DOMAIN files)

\* C20: a failed upload of the release metadata is not fatal: while the invocation
\* goes on after it, the local record holds the full metadata and the bucket does
\* not; an upload is attempted only when a bucket was given; and an invocation
\* whose upload failed ends with status 1 only where writing the notes failed.
C20_UploadFailureIsNotFatal ==
  /\ (upload = "failed") =>
        LET filename == MetadataFilename(release_type, version) IN
        /\ rpc \in {"notes", "tag", "notify"}
        /\ filename \in DOMAIN files /\ files[filename] = release_metadata
        /\ (S3Key(filename) \in DOMAIN s3_store) =>
              s3_store[S3Key(filename)] # release_metadata
  /\ (upload # "none") => release_bucket
  /\ \A i \in 1..Len(outcomes) :
        (outcomes[i].upload_failed /\ outcomes[i].exit = 1) => outcomes[i].at = "notes"

\* C20 witness: an invocation whose upload failed has ended with status 0, leaving
\* both its metadata record and its notes in the working directory and nothing in
\* the bucket.
C20_Witness ==
  /\ rpc = "exited" /\ Len(outcomes) = 1
  /\ outcomes[1].upload_failed /\ outcomes[1].exit = 0
  /\ MetadataFilename(outcomes[1].release_type, outcomes[1].version) \in DOMAIN files
  /\ NotesFilename(outcomes[1].version) \in DOMAIN files
  /\ s3_store = <<>>

\* every invocation so far ended with status 0 and no two had the same identifier
AllSucceededWithDistinctIds ==
  /\ \A i \in 1..Len(outcomes) : outcomes[i].exit = 0
  /\ \A i, j \in 1..Len(outcomes) :
       (i # j) => (outcomes[i].release_type # outcomes[j].release_type
                     \/ outcomes[i].version # outcomes[j].version)

\* C21: after successful invocations with pairwise distinct identifiers every
\* release has its own metadata record and its own notes: the record of release
\* (t, v) and the notes document of version v hold what the invocation for (t, v)
\* wrote, also when a candidate and a stable release share the version.
C21_EveryReleaseKeepsItsFiles ==
  (rpc = "exited" /\ AllSucceededWithDistinctIds) =>
     \A i \in 1..Len(outcomes) :
        LET t == outcomes[i].release_type
            v == outcomes[i].version IN
        /\ MetadataFilename(t, v) \in DOMAIN files
        /\ files[MetadataFilename(t, v)].creation_time = i
        /\ NotesFilename(v) \in DOMAIN files
        /\ files[NotesFilename(v)].notes_of.release_type = t
        /\ files[NotesFilename(v)].notes_of.creation_time = i

(* ---------------------- properties of the packaging ------------------- *)

\* a packaging has ended, by returning or by raising
PackagingEnded == zpc \in {"returned", "raised"}

\* C22: a packaging by either packager completes without raising whichever content
\* groups resolve to no files (no source files, no or an empty or a missing
\* training-output directory, no project files), and a group that resolved to no
\* files is not in the archive.
C22_EmptyGroupsSkippedPackagingCompletes ==
  (PackagingEnded /\ zcaller \in {"create_zip_package", "train-script"}) =>
     /\ zpc = "returned"
     /\ ~zin.source => "source" \notin archive
     /\ ~zin.project_files => archive \cap {"training_files", "inference_files"} = {}
     /\ zin.training_output # "files" =>
          archive \cap {"model_artifacts", "training_output"} = {}

\* C27: every create_zip_package ends by returning zip_name, having run the steps
\* source code, project files, deployment configuration, documentation, metadata
\* in this order, with deployment_config.json, RELEASE_NOTES.md and metadata.json
\* in the archive.
C27_PackageStepsInOrderAndComplete ==
  (PackagingEnded /\ zcaller = "create_zip_package") =>
     /\ zpc = "returned" /\ zip_result = <<"zip_name">>
     /\ steps = <<"source code", "project files", "deployment configuration",
                  "documentation", "metadata">>
     /\ {"deployment_config.json", "RELEASE_NOTES.md", "metadata.json"} \subseteq archive

\* the content group an entry of package_contents stands for
GroupOfLabel(label) ==
  CASE label = "Source code (src/, scripts/, tests/)" -> "source"
    [] label = "Training scripts and configurations"  -> "training_files"
    [] label = "Project files and configurations"     -> "training_files"
    [] label = "Model artifacts (if available)"       -> "model_artifacts"
    [] label = "Inference handler scripts"            -> "inference_files"
    [] label = "Endpoint configurations"              -> "endpoint_config.json"
    [] label = "Deployment configurations"            -> "deployment_config.json"
    [] OTHER                                          -> "RELEASE_NOTES.md"

\* C23: the package_contents stored in a package's metadata.json names exactly the
\* content groups in that package: every group that contributed files, and no
\* group that was skipped.
C23_ManifestListsIncludedGroups ==
  (metadata_json # <<>>) =>
     {GroupOfLabel(metadata_json[1].package_contents[i]) :
        i \in 1..Len(metadata_json[1].package_contents)}
       = archive \ {"metadata.json"}

(* ------------------- properties of resource creation ------------------ *)

\* C24: for a region without container mapping create_training_job and
\* create_model fail with a configuration error before any provider call: once the
\* container lookup has run, the method has raised ValueError, has sent no request
\* to the provider, and has looked the container up once only (no retry).
C24_UnmappedRegionFailsBeforeProviderCall ==
  (region \notin DOMAIN XGBoostContainers /\ kpc \notin {"idle", "lookup"}) =>
     /\ kpc = "raised" /\ create_error = "ValueError"
     /\ provider_calls = <<>>
     /\ lookups = 1

\* C24 witness: main has exited 1 after create_model raised ValueError for region
\* eu-west-3 without sending a request.
C24_Witness ==
  /\ create_op = "create_model" /\ region = "eu-west-3" /\ create_caller = "main"
  /\ kpc = "raised" /\ create_error = "ValueError" /\ provider_calls = <<>>
  /\ create_exit = <<1>>

(* ------------------------ properties of the frame --------------------- *)

\* requests that create, change or remove a provisioned resource
MutatingCalls ==
  {"create_training_job", "create_model", "create_endpoint_config", "create_endpoint",
   "create_model_package", "create_model_package_group",
   "update_endpoint", "update_model_package",
   "delete_training_job", "delete_endpoint", "delete_endpoint_config", "delete_model",
   "delete_model_package", "delete_object"}

\* C26: the wait operations send describe requests only and send nothing once they
\* have returned or raised; the cleanup sends list and delete requests only; the
\* release sends no request that creates, changes or removes a provisioned
\* resource.
C26_EachComponentKeepsToItsCalls ==
  /\ [](\A c \in issued :
          /\ c[1] \in {"wait_for_endpoint", "wait_for_training_job"} =>
               c[2] \in {"describe_endpoint", "describe_training_job"}
          /\ c[1] = "cleanup" =>
               c[2] \in {"list_training_jobs", "list_endpoints", "list_models",
                          "list_model_packages", "list_objects_v2",
                          "delete_training_job", "delete_endpoint", "delete_model",
                          "delete_model_package", "delete_object"}
          /\ c[1] = "release" => c[2] \notin MutatingCalls)
  /\ [][/\ wpc \in {"returned", "raised"} => seen' = seen
        /\ tpc \in {"returned", "raised"} => attempts' = attempts]_vars

\* C26 witness: a wait_for_endpoint has returned 'Failed' after a sleep, having
\* sent describe_endpoint requests, and deploy_endpoint.py has then exited.
C26_Witness ==
  /\ wait_caller = "main" /\ wpc = "returned" /\ wait_result = <<"Failed">>
  /\ sleeps >= 1 /\ deploy_exit = <<1>>
  /\ <<"wait_for_endpoint", "describe_endpoint">> \in issued

(* ------------------ properties of the release side steps --------------- *)

C29_RegistersCompletedJobsOnly ==
  /\ [](\A i \in 1..Len(reg_calls) :
          LET c == reg_calls[i] IN
          /\ c.op = "create_model_package" =>
               /\ i > 1
               /\ reg_calls[i - 1].op = "describe_training_job"
               /\ reg_calls[i - 1].answer = "Completed"
          /\ c.op = "update_model_package" =>
               \E j \in 1..(i - 1) :
                 reg_calls[j].op = "create_model_package" /\ reg_calls[j].answer = "ok"
          /\ c.op = "create_model_package_group" => ~c.group)
  /\ [][(/\ Len(reg_calls') = Len(reg_calls) + 1
         /\ reg_calls'[Len(reg_calls')].op = "describe_training_job"
         /\ reg_calls'[Len(reg_calls')].answer # "Completed") =>
          /\ gpc' \in {"raised", "exited"}
          /\ reg_caller = "main" => reg_exit' = <<1>>]_vars

\* C29 witness: main found the group in place, sent no create for it, registered
\* the package of a Completed job and approved it.
C29_Witness ==
  /\ reg_caller = "main" /\ gpc = "exited" /\ reg_exit = <<0>>
  /\ reg_job_status = "Completed"
  /\ Len(reg_calls) = 4
  /\ reg_calls[1].op = "describe_model_package_group" /\ reg_calls[1].answer = "found"
  /\ reg_calls[3].op = "create_model_package"
  /\ reg_calls[4].op = "update_model_package"

(* ------------------- properties of the health checks ------------------ *)

\* the number of checks that returned True
PassedCount == Cardinality({i \in 1..Len(ran) : ran[i][2] = "pass"})

\* C30: the checks are run in the order of the list, each once, whatever the
\* earlier ones returned or raised; once run_all_checks has returned, all six have
\* run and the overall status is 'healthy' iff six passed, 'warning' iff five
\* passed and 'unhealthy' iff four or fewer passed; main then exits with 0 iff
\* healthy, 1 iff warning and 2 iff unhealthy.
C30_OverallStatusFromPassedChecks ==
  /\ \A i \in 1..Len(ran) : ran[i][1] = Checks[i]
  /\ passed_checks = PassedCount
  /\ (hpc \in {"returned", "save"} \/ (hpc = "exited" /\ ran # <<>>)) =>
       /\ Len(ran) = 6
       /\ overall_status = "healthy" <=> PassedCount = 6
       /\ overall_status = "warning" <=> PassedCount = 5
       /\ overall_status = "unhealthy" <=> PassedCount <= 4
  /\ (hpc = "exited" /\ ran # <<>>) =>
       /\ health_exit = <<0>> <=> overall_status = "healthy"
       /\ health_exit = <<1>> <=> overall_status = "warning"
       /\ health_exit = <<2>> <=> overall_status = "unhealthy"

\* C30 witness: the first check raised, the second failed, the other four passed,
\* and main has exited with 2.
C30_Witness ==
  /\ hcaller = "main" /\ hpc = "exited"
  /\ Len(ran) = 6 /\ ran[1][2] = "raise" /\ ran[2][2] = "fail"
  /\ passed_checks = 4 /\ overall_status = "unhealthy" /\ health_exit = <<2>>

====
